---- MODULE Spec2Model ----
(***************************************************************************)
(* Model of the Nestify real-estate API: the cross-store favorites         *)
(* resolver and the favorites mutations (relational user store against the *)
(* listing document store), and the property filter/sort/pagination        *)
(* pipeline.                                                               *)
(***************************************************************************)
EXTENDS Integers, Sequences, FiniteSets, TLC

VARIABLES
    users,       \* relational store: user id -> persisted user record
    properties,  \* document store: listing id -> document, or NoDoc
    requests,    \* requests in progress: favorite mutations between their
                 \* findByPk and their save, list requests not yet served
    last         \* the response of the handler that completed last

vars == <<users, properties, requests, last>>

----------------------------------------------------------------------------
(* Bounds of the model *)

MaxInFlight == 2
MaxQueryNum == 2
MaxAmount == 1
MaxTotal == 6
MaxPage == 4
MaxListings == 21
MaxCities == 11
MaxPrice == 6
MaxSurface == 3

(* Program constants *)

DEFAULT_PAGE == 1
DEFAULT_LIMIT == 20
MAX_LIMIT == 100

\* Listing ids are opaque strings assigned at ingestion; user ids are UUIDs.
PropIds == {"p1", "p2", "p3"}
UserIds == {"u1", "u2"}

----------------------------------------------------------------------------
(* Generic sequence helpers *)

Range(s) == {s[i] : i \in DOMAIN s}

NoDup(s) == \A i, j \in DOMAIN s : i # j => s[i] # s[j]

\* All duplicate-free sequences over the set S.
RECURSIVE Orderings(_)
Orderings(S) ==
    IF S = {} THEN {<<>>}
    ELSE UNION {{<<x>> \o t : t \in Orderings(S \ {x})} : x \in S}

DupFreeSeqs(S) == UNION {Orderings(T) : T \in SUBSET S}

RECURSIVE SeqSum(_)
SeqSum(s) == IF s = <<>> THEN 0 ELSE Head(s) + SeqSum(Tail(s))

RECURSIVE Concat(_)
Concat(ss) == IF ss = <<>> THEN <<>> ELSE Head(ss) \o Concat(Tail(ss))

\* s is obtained from t by deleting elements (order kept).
RECURSIVE IsSubSeq(_, _)
IsSubSeq(s, t) ==
    IF s = <<>> THEN TRUE
    ELSE IF t = <<>> THEN FALSE
    ELSE IF Head(s) = Head(t) THEN IsSubSeq(Tail(s), Tail(t))
    ELSE IsSubSeq(s, Tail(t))

Min(a, b) == IF a <= b THEN a ELSE b

\* The quotient rounded down.
FloorDiv(a, b) == a \div b

CeilDiv(a, b) == (a + b - 1) \div b

----------------------------------------------------------------------------
(* JavaScript values as they reach a handler through req.query: a query   *)
(* parameter is undefined or a string; the defaults are numbers.          *)

Undefined == [t |-> "undefined"]
Num(n) == [t |-> "number", v |-> n]
Str(s) == [t |-> "string", s |-> s]

\* The decimal digit characters.
DigitChars == <<"0", "1", "2", "3", "4", "5", "6", "7", "8", "9">>

DigitOf(c) == CHOOSE d \in 0..9 : DigitChars[d + 1] = c

\* Decimal digits of a natural number, most significant first (String(n)).
RECURSIVE Digits(_)
Digits(n) ==
    IF n < 10 THEN <<DigitChars[n + 1]>>
    ELSE Digits(n \div 10) \o <<DigitChars[(n % 10) + 1]>>

\* Value of a string of decimal digits (Number(s)).
RECURSIVE DigitsValue(_)
DigitsValue(s) ==
    IF s = <<>> THEN 0
    ELSE DigitsValue(SubSeq(s, 1, Len(s) - 1)) * 10 + DigitOf(s[Len(s)])

\* Number(x) is not NaN: a number, or a string of decimal digits.
IsNumeric(x) ==
    \/ x.t = "number"
    \/ x.t = "string" /\ \A i \in DOMAIN x.s : x.s[i] \in Range(DigitChars)

\* Number(x) for a numeric x.
JSToNumber(x) == IF x.t = "number" THEN x.v ELSE DigitsValue(x.s)

JSToString(x) == IF x.t = "string" THEN x.s ELSE Digits(x.v)

\* a - b and a * b convert both operands to numbers.
JSSub(a, b) == Num(JSToNumber(a) - JSToNumber(b))
JSMul(a, b) == Num(JSToNumber(a) * JSToNumber(b))

\* a + b concatenates as soon as one operand is a string.
JSAdd(a, b) ==
    IF a.t = "string" \/ b.t = "string"
    THEN Str(JSToString(a) \o JSToString(b))
    ELSE Num(a.v + b.v)

\* Array.prototype.slice(start, end) for non-negative integer bounds.
ArraySlice(arr, start, end) ==
    SubSeq(arr, Min(start, Len(arr)) + 1, Min(end, Len(arr)))

\* The values a client can send for page / limit: nothing, or a positive
\* integer written in decimal.
QueryNumbers == {Undefined} \cup {Str(Digits(n)) : n \in 1..MaxQueryNum}

\* const { x = dflt } = req.query
WithDefault(x, dflt) == IF x = Undefined THEN Num(dflt) ELSE x

----------------------------------------------------------------------------
(* The two stores *)

NoDoc == [exists |-> FALSE]

\* A listing document (Property schema): features is
\* apartment_details_id.features, city is location_id.city, rooms is
\* apartment_details_id.rooms, words the text index of title and
\* description. Strings that are searched or split are sequences of
\* characters or of longer pieces of text where the code never looks inside
\* the piece; a feature name is a string of one piece.
Doc(validated, price, surface, features, fixed) ==
    [exists |-> TRUE, validated |-> validated, price |-> price,
     surface |-> surface, features |-> features, city |-> fixed.city,
     type |-> fixed.type, rooms |-> fixed.rooms, views |-> fixed.views,
     created_at |-> fixed.created_at, words |-> fixed.words]

\* The fields of each listing that the model keeps fixed.
FixedFields ==
    [p \in PropIds |->
       CASE p = "p1" -> [city |-> <<"T", "u", "n", "i", "s">>, type |-> "Villa",
                         rooms |-> 3, views |-> 0, created_at |-> 1,
                         words |-> {"villa", "tunis"}]
         [] p = "p2" -> [city |-> <<"S", "f", "a", "x">>, type |-> "Appartement",
                         rooms |-> 2, views |-> 0, created_at |-> 2,
                         words |-> {"appartement"}]
         [] OTHER    -> [city |-> <<"T", "u", "n", "i", "s">>, type |-> "Villa",
                         rooms |-> 2, views |-> 0, created_at |-> 2,
                         words |-> {"villa"}]]

\* Listing p with price 1, surface 1 and the one feature "garden".
PlainDoc(p, validated) == Doc(validated, 1, 1, {<<"garden">>}, FixedFields[p])

\* User record of the relational store (User model): favorites is the
\* ordered ARRAY(STRING) column, defaultValue [].
NewUser == [favorites |-> <<>>]

\* Property.find({ _id: { $in: ids }, validated: true }): the matching ids.
FindValidatedIn(ids) ==
    {id \in PropIds : /\ id \in Range(ids)
                      /\ properties[id].exists
                      /\ properties[id].validated}

----------------------------------------------------------------------------
(* Responses *)

\* res.json(successResponse(data)) : HTTP 200
Ok(op, user, id, data) ==
    [op |-> op, user |-> user, id |-> id, status |-> 200,
     code |-> "OK", data |-> data]

\* errorHandler / res.status(n).json({ success: false, ... })
Err(op, user, id, status, code) ==
    [op |-> op, user |-> user, id |-> id, status |-> status,
     code |-> code, data |-> [none |-> TRUE]]

NoResponse == [op |-> "none", user |-> "none", id |-> "none", status |-> 0,
               code |-> "none", data |-> [none |-> TRUE]]

----------------------------------------------------------------------------
(* helpers.generatePaginationMeta *)

\* Math.ceil(total / limit): Infinity or NaN when limit is 0.
TotalPages(total, limit) ==
    IF limit # 0 THEN CeilDiv(total, limit)
    ELSE IF total = 0 THEN "NaN" ELSE "Infinity"

\* page < totalPages: true against Infinity, false against NaN.
HasNext(total, page, limit) ==
    IF limit # 0 THEN page < CeilDiv(total, limit) ELSE total # 0

generatePaginationMeta(total, page, limit) ==
    [currentPage |-> page,
        totalPages |-> TotalPages(total, JSToNumber(limit)),
        totalItems |-> total,
        itemsPerPage |-> limit,
        hasNext |-> HasNext(total, JSToNumber(page), JSToNumber(limit)),
        hasPrev |-> JSToNumber(page) > 1]

----------------------------------------------------------------------------
(* favoriteController.getFavorites *)

\* endIndex = startIndex + limit
EndIndex(startIndex, limit) == JSAdd(startIndex, limit)

\* favorites.slice(startIndex, endIndex) for the page and limit received.
PaginatedIds(favorites, page, limit) ==
    LET startIndex == JSMul(JSSub(page, Num(1)), limit)
        endIndex == EndIndex(startIndex, limit)
    IN ArraySlice(favorites, JSToNumber(startIndex), JSToNumber(endIndex))

\* paginatedIds.map(id => properties.find(p => p._id === id)).filter(Boolean)
OrderedProperties(paginatedIds, fetched) ==
    SelectSeq(paginatedIds, LAMBDA id : id \in Range(fetched))

\* The count of the favorites that resolve to a validated listing.
ResolvedTotal(favorites) == Cardinality(FindValidatedIn(favorites))

\* const total = favorites.length
FavoritesTotal(favorites) == Len(favorites)

\* The body of the 200 response, given the order `fetched` in which the
\* document store returned the matching listings.
GetFavoritesData(favorites, pageQ, limitQ, fetched) ==
    LET page == WithDefault(pageQ, DEFAULT_PAGE)
        limit == WithDefault(limitQ, DEFAULT_LIMIT)
        total == FavoritesTotal(favorites)
        paginatedIds == PaginatedIds(favorites, page, limit)
    IN [favorites |-> OrderedProperties(paginatedIds, fetched),
        pagination |-> generatePaginationMeta(total, page, limit),
        pageQ |-> pageQ, limitQ |-> limitQ]

getFavorites(u, pageQ, limitQ) ==
    LET favorites == users[u].favorites
        paginatedIds ==
            PaginatedIds(favorites, WithDefault(pageQ, DEFAULT_PAGE),
                         WithDefault(limitQ, DEFAULT_LIMIT))
    IN /\ \E fetched \in Orderings(FindValidatedIn(paginatedIds)) :
            last' = Ok("getFavorites", u, "none",
                       GetFavoritesData(favorites, pageQ, limitQ, fetched))
       /\ UNCHANGED <<users, properties, requests>>

----------------------------------------------------------------------------
(* User model: favorites methods *)

\* The instance methods the User model defines (User.prototype.*).
UserInstanceMethods ==
    {"comparePassword", "addToFavorites", "removeFromFavorites",
     "addToSearchHistory", "updateLocation", "toSafeObject"}

\* push without the includes() test.
AddWithoutIncludesTest(favorites, propertyId) == Append(favorites, propertyId)

\* unshift in place of push.
AddAtFront(favorites, propertyId) ==
    IF propertyId \in Range(favorites) THEN favorites
    ELSE <<propertyId>> \o favorites

\* User.prototype.addToFavorites: the instance's favorites before save().
addToFavorites(favorites, propertyId) ==
    IF propertyId \in Range(favorites) THEN favorites
    ELSE Append(favorites, propertyId)

\* User.prototype.removeFromFavorites: the instance's favorites before save().
removeFromFavorites(favorites, propertyId) ==
    SelectSeq(favorites, LAMBDA id : id # propertyId)

----------------------------------------------------------------------------
(* routes/properties.js: POST and DELETE /:id/favorite                      *)
(* Each request reads the user row (findByPk), changes its own instance    *)
(* and writes the row back (save); other requests run between the two.     *)

Instance(op, u, p, favorites) ==
    [op |-> op, user |-> u, id |-> p, favorites |-> favorites]

\* POST /:id/favorite, listing absent: 404
PostFavoriteNotFound(u, p) ==
    /\ ~properties[p].exists
    /\ last' = Err("POST /:id/favorite", u, p, 404, "Property not found")
    /\ UNCHANGED <<users, properties, requests>>

\* POST /:id/favorite up to the save() inside user.addToFavorites
PostFavoriteLoad(u, p) ==
    /\ properties[p].exists
    /\ Cardinality(requests) < MaxInFlight
    /\ requests' = requests \cup
         {Instance("POST /:id/favorite", u, p,
                   addToFavorites(users[u].favorites, p))}
    /\ UNCHANGED <<users, properties, last>>

\* DELETE /:id/favorite up to the save() inside user.removeFromFavorites
DeleteFavoriteLoad(u, p) ==
    /\ Cardinality(requests) < MaxInFlight
    /\ requests' = requests \cup
         {Instance("DELETE /:id/favorite", u, p,
                   removeFromFavorites(users[u].favorites, p))}
    /\ UNCHANGED <<users, properties, last>>

\* A save that would apply only the request's own change to the stored
\* column at the time of the write.
SaveMerged(r) ==
    /\ r \in requests
    /\ users' = [users EXCEPT ![r.user].favorites =
                     IF r.op = "POST /:id/favorite"
                     THEN addToFavorites(users[r.user].favorites, r.id)
                     ELSE removeFromFavorites(users[r.user].favorites, r.id)]
    /\ requests' = requests \ {r}
    /\ last' = Ok(r.op, r.user, r.id, [none |-> TRUE])
    /\ UNCHANGED properties

\* this.save() completes: the instance's favorites replace the stored column,
\* then res.json({ success: true, ... }).
Save(r) ==
    /\ r \in requests
    /\ users' = [users EXCEPT ![r.user].favorites = r.favorites]
    /\ requests' = requests \ {r}
    /\ last' = Ok(r.op, r.user, r.id, [none |-> TRUE])
    /\ UNCHANGED properties

----------------------------------------------------------------------------
(* favoriteController.addFavorite / removeFavorite                         *)

\* addFavorite: 404 unless the listing exists and is validated; then
\* user.hasFavorited(propertyId) is called, which the User model does not
\* define: the TypeError reaches errorHandler, which answers 500.
addFavorite(u, p) ==
    /\ last' =
         IF ~properties[p].exists \/ ~properties[p].validated
         THEN Err("addFavorite", u, p, 404, "PROPERTY_NOT_FOUND")
         ELSE IF "hasFavorited" \notin UserInstanceMethods
         THEN Err("addFavorite", u, p, 500, "SERVER_ERROR")
         ELSE Ok("addFavorite", u, p, [isFavorited |-> TRUE])
    /\ UNCHANGED <<users, properties, requests>>

\* removeFavorite: User.findById / user.hasFavorited are not defined by the
\* User model either: TypeError, 500.
removeFavorite(u, p) ==
    /\ last' =
         IF "hasFavorited" \notin UserInstanceMethods
         THEN Err("removeFavorite", u, p, 500, "SERVER_ERROR")
         ELSE Ok("removeFavorite", u, p, [isFavorited |-> FALSE])
    /\ UNCHANGED <<users, properties, requests>>

----------------------------------------------------------------------------
(* JavaScript values in the filters of a list request *)

Arr(a) == [t |-> "array", a |-> a]
Bool(b) == [t |-> "boolean", v |-> b]

\* if (x): undefined, 0 and "" are falsy; "0" and every array are truthy.
Truthy(x) ==
    CASE x.t = "undefined" -> FALSE
      [] x.t = "number" -> x.v # 0
      [] x.t = "string" -> x.s # <<>>
      [] x.t = "boolean" -> x.v
      [] OTHER -> TRUE

\* String.prototype.split(',')
RECURSIVE Split(_)
Split(s) ==
    IF \A i \in DOMAIN s : s[i] # "," THEN <<s>>
    ELSE LET k == CHOOSE i \in DOMAIN s :
                     s[i] = "," /\ \A j \in 1..(i - 1) : s[j] # ","
         IN <<SubSeq(s, 1, k - 1)>> \o Split(SubSeq(s, k + 1, Len(s)))

\* String.prototype.trim()
RECURSIVE Trim(_)
Trim(s) ==
    IF s # <<>> /\ Head(s) = " " THEN Trim(Tail(s))
    ELSE IF s # <<>> /\ s[Len(s)] = " " THEN Trim(SubSeq(s, 1, Len(s) - 1))
    ELSE s

\* helpers.parseArrayFromQuery
parseArrayFromQuery(value) ==
    IF ~Truthy(value) THEN <<>>
    ELSE IF value.t = "array" THEN value.a
    ELSE IF value.t = "string"
    THEN SelectSeq([i \in DOMAIN Split(value.s) |-> Trim(Split(value.s)[i])],
                   LAMBDA v : v # <<>>)
    ELSE <<>>

\* helpers.buildSortObject: sortOptions[sortParam] || sortOptions.newest
sortOptions ==
    [newest       |-> [field |-> "created_at", dir |-> -1],
     price_asc    |-> [field |-> "price", dir |-> 1],
     price_desc   |-> [field |-> "price", dir |-> -1],
     surface_asc  |-> [field |-> "surface", dir |-> 1],
     surface_desc |-> [field |-> "surface", dir |-> -1],
     views        |-> [field |-> "views", dir |-> -1]]

\* Names every object literal inherits from Object.prototype.
ObjectPrototypeKeys ==
    {"constructor", "toString", "valueOf", "hasOwnProperty", "__proto__"}

\* What sortOptions[key] finds up the prototype chain: a function, or
\* Object.prototype itself for __proto__.
Inherited(key) == [inherited |-> key]

IsInherited(sortObj) == "inherited" \in DOMAIN sortObj

\* The property key a parameter value is converted to.
PropertyKey(sortParam) ==
    IF sortParam.t = "string" /\ Len(sortParam.s) = 1 THEN sortParam.s[1]
    ELSE "undefined"

buildSortObject(sortParam) ==
    LET key == PropertyKey(sortParam)
    IN IF key \in DOMAIN sortOptions THEN sortOptions[key]
       ELSE IF key \in ObjectPrototypeKeys THEN Inherited(key)
       ELSE sortOptions.newest

\* { score: { $meta: 'textScore' } }
TextScoreSort == [field |-> "score", dir |-> -1]

----------------------------------------------------------------------------
(* Property.search: the query object built from the filters *)

Regex(pattern) == [t |-> "regex", pattern |-> pattern]
RangeCond(gte, lte) == [t |-> "range", gte |-> gte, lte |-> lte]
AllCond(a) == [t |-> "all", a |-> a]

\* A query object with no key.
NoConditions ==
    [validated |-> Undefined, city |-> Undefined, type |-> Undefined,
     price |-> Undefined, surface |-> Undefined, rooms |-> Undefined,
     features |-> Undefined, text |-> Undefined]

\* if (min || max) { q = {}; if (min) q.$gte = min; if (max) q.$lte = max }
RangeFilter(min, max) ==
    IF Truthy(min) \/ Truthy(max)
    THEN RangeCond(IF Truthy(min) THEN min ELSE Undefined,
                   IF Truthy(max) THEN max ELSE Undefined)
    ELSE Undefined

\* if (filters.features && Array.isArray(filters.features)) { $all: ... }
FeaturesFilter(features) ==
    IF Truthy(features) /\ features.t = "array"
    THEN AllCond(features.a)
    ELSE Undefined

\* The filter keys Property.search adds to the query it starts from.
WithFilters(query, filters) ==
    [query EXCEPT
       !.city = IF Truthy(filters.city) THEN Regex(filters.city.s)
                ELSE Undefined,
       !.type = IF Truthy(filters.type) THEN filters.type ELSE Undefined,
       !.price = RangeFilter(filters.priceMin, filters.priceMax),
       !.surface = RangeFilter(filters.surfaceMin, filters.surfaceMax),
       !.rooms = IF Truthy(filters.rooms) THEN filters.rooms ELSE Undefined,
       !.features = FeaturesFilter(filters.features)]

\* The same filters on a query that does not start from validated: true.
SearchAnyStatus(filters) == WithFilters(NoConditions, filters)

\* const query = { validated: true }; ...; return query
search(filters) ==
    WithFilters([NoConditions EXCEPT !.validated = Bool(TRUE)], filters)

----------------------------------------------------------------------------
(* The document store evaluating a query (Mongoose casts the operands to  *)
(* the type of the schema path)                                            *)

Lower(c) == CASE c = "T" -> "t" [] c = "S" -> "s" [] OTHER -> c

\* new RegExp(pattern, 'i').test(s), pattern without metacharacters
RegExpTest(pattern, s) ==
    \E i \in 0..(Len(s) - Len(pattern)) :
        \A j \in 1..Len(pattern) : Lower(s[i + j]) = Lower(pattern[j])

\* { $gte, $lte } on a Number path
InRange(cond, n) ==
    /\ cond.gte.t = "undefined" \/ JSToNumber(cond.gte) <= n
    /\ cond.lte.t = "undefined" \/ n <= JSToNumber(cond.lte)

\* { $all: required }: every element is in the array; $all of an empty
\* array matches no document.
MatchesAll(required, have) ==
    required # <<>> /\ Range(required) \subseteq have

Matches(query, doc) ==
    /\ doc.exists
    /\ query.validated.t = "undefined" \/ doc.validated = query.validated.v
    /\ query.city.t = "undefined" \/ RegExpTest(query.city.pattern, doc.city)
    /\ query.type.t = "undefined" \/ query.type.s = <<doc.type>>
    /\ query.price.t = "undefined" \/ InRange(query.price, doc.price)
    /\ query.surface.t = "undefined" \/ InRange(query.surface, doc.surface)
    /\ query.rooms.t = "undefined" \/ JSToNumber(query.rooms) = doc.rooms
    /\ query.features.t = "undefined"
          \/ MatchesAll(query.features.a, doc.features)
    /\ query.text.t = "undefined"
          \/ \E w \in Range(query.text.s) : w \in doc.words

\* countDocuments(query) ranges over these ids.
Found(query) == {id \in PropIds : Matches(query, properties[id])}

\* The key a listing is sorted by; the text score is not modelled, every
\* order of the matches is possible under TextScoreSort.
SortValue(doc, field) ==
    CASE field = "created_at" -> doc.created_at
      [] field = "price" -> doc.price
      [] field = "surface" -> doc.surface
      [] field = "views" -> doc.views
      [] OTHER -> 0

\* The orders find(query).sort(sortObj) can return: ties in any order, and
\* any order for an object without keys.
SortedOrders(ids, sortObj) ==
    {o \in Orderings(ids) :
        \A i, j \in DOMAIN o :
            \/ IsInherited(sortObj)
            \/ i >= j
            \/ sortObj.dir * SortValue(properties[o[i]], sortObj.field)
                  <= sortObj.dir * SortValue(properties[o[j]], sortObj.field)}

\* .skip((page - 1) * limit).limit(limit) on the order o; a limit of 0 is
\* no limit.
SkipLimit(o, page, limit) ==
    LET skip == JSToNumber(JSMul(JSSub(page, Num(1)), limit))
    IN IF JSToNumber(limit) = 0 THEN ArraySlice(o, skip, Len(o))
       ELSE ArraySlice(o, skip, skip + JSToNumber(limit))

----------------------------------------------------------------------------
(* Property controller: the public list operations, served to a client that *)
(* is not signed in (req.user is absent)                                    *)

\* req.query with no parameter; city is req.params.city for the by-city route.
NoQuery ==
    [city |-> Undefined, type |-> Undefined, priceMin |-> Undefined,
     priceMax |-> Undefined, surfaceMin |-> Undefined,
     surfaceMax |-> Undefined, rooms |-> Undefined, features |-> Undefined,
     sort |-> Undefined, page |-> Undefined, limit |-> Undefined,
     q |-> Undefined]

ListRequest(op, query) == [op |-> op, query |-> query]

\* res.json(successResponse({ properties, pagination, ... }))
ListResponse(r, found, o) ==
    LET page == WithDefault(r.query.page, DEFAULT_PAGE)
        limit == WithDefault(r.query.limit, DEFAULT_LIMIT)
    IN Ok(r.op, "none", "none",
          [properties |-> SkipLimit(o, page, limit),
           pagination |-> generatePaginationMeta(Cardinality(found), page, limit),
           query |-> r.query])

\* The error response of a list handler (asyncHandler -> errorHandler).
ListError(r, status, code) ==
    [Err(r.op, "none", "none", status, code) EXCEPT !.data = [query |-> r.query]]

\* An operand of a Number path that Mongoose cannot cast: CastError.
CastFails(query) ==
    \/ query.price.t = "range"
          /\ \E b \in {query.price.gte, query.price.lte} :
                b.t # "undefined" /\ ~IsNumeric(b)
    \/ query.surface.t = "range"
          /\ \E b \in {query.surface.gte, query.surface.lte} :
                b.t # "undefined" /\ ~IsNumeric(b)
    \/ query.rooms.t # "undefined" /\ ~IsNumeric(query.rooms)

\* .sort() of a function throws TypeError (invalid sort() argument).
SortFails(sortObj) == IsInherited(sortObj) /\ sortObj.inherited # "__proto__"

\* The responses countDocuments(query) and find(query).sort().skip().limit()
\* can lead to: CastError is answered 400 INVALID_INPUT by errorHandler, any
\* other error 500 SERVER_ERROR.
ListOutcomes(r, query, sortObj) ==
    IF CastFails(query)
    THEN {ListError(r, 400, "INVALID_INPUT")}
    ELSE IF SortFails(sortObj)
    THEN {ListError(r, 500, "SERVER_ERROR")}
    ELSE {ListResponse(r, Found(query), o) :
             o \in SortedOrders(Found(query), sortObj)}

getProperties(r) ==
    /\ r \in requests
    /\ r.op = "getProperties"
    /\ LET query == search([r.query EXCEPT
                       !.features = Arr(parseArrayFromQuery(r.query.features))])
       IN last' \in ListOutcomes(r, query, buildSortObject(r.query.sort))
    /\ requests' = requests \ {r}
    /\ UNCHANGED <<users, properties>>

searchProperties(r) ==
    /\ r \in requests
    /\ r.op = "searchProperties"
    /\ LET q == r.query.q
           query == [search(r.query) EXCEPT
                       !.text = IF Truthy(q) THEN q ELSE Undefined]
           sortObj == IF Truthy(q) THEN TextScoreSort
                      ELSE buildSortObject(r.query.sort)
       IN last' \in ListOutcomes(r, query, sortObj)
    /\ requests' = requests \ {r}
    /\ UNCHANGED <<users, properties>>

getPropertiesByCity(r) ==
    /\ r \in requests
    /\ r.op = "getPropertiesByCity"
    /\ LET query == [NoConditions EXCEPT !.validated = Bool(TRUE),
                                         !.city = Regex(r.query.city.s)]
       IN last' \in ListOutcomes(r, query, buildSortObject(r.query.sort))
    /\ requests' = requests \ {r}
    /\ UNCHANGED <<users, properties>>

----------------------------------------------------------------------------
(* Specifications *)

ListingStates(p) == {NoDoc, PlainDoc(p, TRUE), PlainDoc(p, FALSE)}

Catalogues ==
    {c \in [PropIds -> UNION {ListingStates(p) : p \in PropIds}] :
        \A p \in PropIds : c[p] \in ListingStates(p)}

\* The listing collection as ingested: p1 validated, p2 not validated,
\* p3 not in the collection.
SeedCatalogue ==
    [p \in PropIds |-> CASE p = "p1" -> PlainDoc(p, TRUE)
                         [] p = "p2" -> PlainDoc(p, FALSE)
                         [] OTHER -> NoDoc]

\* routes/properties.js favorites mutations: the stores after start-up,
\* no favorites yet.
Init ==
    /\ users = [u \in UserIds |-> NewUser]
    /\ properties = SeedCatalogue
    /\ requests = {}
    /\ last = NoResponse

Next ==
    \/ \E u \in UserIds, p \in PropIds : PostFavoriteNotFound(u, p)
    \/ \E u \in UserIds, p \in PropIds : PostFavoriteLoad(u, p)
    \/ \E u \in UserIds, p \in PropIds : DeleteFavoriteLoad(u, p)
    \/ \E r \in requests : Save(r)

Spec == Init /\ [][Next]_vars

\* favoriteController over every favorites list of one account and every
\* state of the listing collection.
InitController ==
    /\ \E f \in DupFreeSeqs(PropIds) :
          users = [u \in UserIds |->
                      IF u = "u1" THEN [favorites |-> f] ELSE NewUser]
    /\ properties \in Catalogues
    /\ requests = {}
    /\ last = NoResponse

NextController ==
    \/ \E pageQ \in QueryNumbers, limitQ \in QueryNumbers :
          getFavorites("u1", pageQ, limitQ)
    \/ \E p \in PropIds : addFavorite("u1", p)
    \/ \E p \in PropIds : removeFavorite("u1", p)

SpecController == InitController /\ [][NextController]_vars

\* Values of the request parameters.
FeatureNames == {<<"parking">>, <<"garden">>}

Amounts == {Undefined} \cup {Num(n) : n \in 0..MaxAmount}
RawAmounts == {Undefined} \cup {Str(Digits(n)) : n \in 0..MaxAmount}

\* A parameter that is absent, a number in digits, or not a number.
MalformedAmounts == {Undefined, Str(<<"1">>), Str(<<"a", "b", "c">>)}

\* Page sizes at and beyond both ends of 1..MAX_LIMIT.
PageSizes == {Str(Digits(n)) : n \in {0, 1, MAX_LIMIT, MAX_LIMIT + 1}}

FeatureParams ==
    {Undefined,
     Str(<<"parking">>), Str(<<"garden">>), Str(<<",">>),
     Str(<<"parking", ",", "garden">>),
     Str(<<"garden", ",", " ", "parking", " ">>),
     Arr(<< <<"parking">>, <<"garden">> >>),
     Arr(<< <<"garden">>, <<"parking">> >>),
     Arr(<< <<"garden">>, <<"garden">> >>)}

SortParams ==
    {Undefined, Str(<<"cheapest">>), Str(<<"constructor">>)} \cup {Str(<<k>>) : k \in DOMAIN sortOptions}

CityParams ==
    {Str(<<"t", "u", "n", "i", "s">>), Str(<<"S">>), Str(<<"x">>)}

Garden == Str(<<"garden">>)

\* GET /api/v1/properties
GetPropertiesRequests ==
    {ListRequest("getProperties", q) : q \in
        {[NoQuery EXCEPT !.features = f] : f \in FeatureParams}
        \cup {[NoQuery EXCEPT !.features = Garden, !.sort = s,
                              !.page = pg, !.limit = lm] :
                 s \in SortParams, pg \in QueryNumbers, lm \in QueryNumbers}
        \cup {[NoQuery EXCEPT !.features = Garden, !.city = c, !.type = t,
                              !.rooms = n] :
                 c \in {Undefined, Str(<<"t", "u", "n">>), Str(<<"S">>)},
                 t \in {Undefined, Str(<<"Villa">>)},
                 n \in {Undefined, Num(2), Str(<<"3">>)}}
        \cup {[NoQuery EXCEPT !.features = Garden, !.priceMin = a,
                              !.priceMax = b] :
                 a \in RawAmounts, b \in RawAmounts}
        \cup {[NoQuery EXCEPT !.features = Garden, !.page = pg, !.limit = lm] :
                 pg \in QueryNumbers, lm \in PageSizes}}

\* GET /api/v1/properties/search; the amounts are numbers when the query has
\* passed validationSchemas.propertySearch, strings otherwise.
SearchPropertiesRequests ==
    {ListRequest("searchProperties", q) : q \in
        {[NoQuery EXCEPT !.priceMin = a, !.priceMax = b] :
            a \in Amounts, b \in Amounts}
        \cup {[NoQuery EXCEPT !.surfaceMin = a, !.surfaceMax = b] :
                 a \in Amounts, b \in Amounts}
        \cup {[NoQuery EXCEPT !.priceMax = a, !.surfaceMin = b] :
                 a \in Amounts, b \in Amounts}
        \cup {[NoQuery EXCEPT !.priceMin = a, !.priceMax = b] :
                 a \in RawAmounts, b \in RawAmounts}
        \cup {[NoQuery EXCEPT !.q = w, !.features = f] :
                 w \in {Undefined, Str(<<"villa">>)}, f \in FeatureParams}
        \cup {[NoQuery EXCEPT !.priceMin = a, !.surfaceMax = b, !.rooms = n] :
                 a \in MalformedAmounts, b \in MalformedAmounts,
                 n \in MalformedAmounts}
        \cup {[NoQuery EXCEPT !.sort = s, !.page = pg, !.limit = lm] :
                 s \in {Undefined, Str(<<"price_asc">>)},
                 pg \in QueryNumbers, lm \in QueryNumbers}}

\* GET /api/v1/properties/cities/:city
ByCityRequests ==
    {ListRequest("getPropertiesByCity", q) : q \in
        {[NoQuery EXCEPT !.city = c, !.sort = s, !.page = pg, !.limit = lm] :
            c \in CityParams, s \in {Undefined, Str(<<"price_desc">>)},
            pg \in QueryNumbers, lm \in QueryNumbers}}

\* Every state of listing p1 (validated or not, each price and surface, each
\* set of features); p2 and p3 absent, validated or not validated.
SearchCatalogues ==
    {[c EXCEPT !["p1"] = Doc(v, pr, sf, fs, FixedFields["p1"])] :
        c \in Catalogues, v \in BOOLEAN, pr \in 0..MaxAmount,
        sf \in 0..MaxAmount, fs \in SUBSET FeatureNames}

\* One list request arrives at a collection in any of these states.
InitSearch ==
    /\ users = [u \in UserIds |-> NewUser]
    /\ properties \in SearchCatalogues
    /\ \E r \in GetPropertiesRequests \cup SearchPropertiesRequests
                  \cup ByCityRequests : requests = {r}
    /\ last = NoResponse

NextSearch ==
    \/ \E r \in requests : getProperties(r)
    \/ \E r \in requests : searchProperties(r)
    \/ \E r \in requests : getPropertiesByCity(r)

SpecSearch == InitSearch /\ [][NextSearch]_vars

\* Two requests of a client paging through one listing query: pages pg and
\* pg + 1 of the same filter, sort keyword and page size, on a collection
\* that does not change.
PagePairs ==
    {{ListRequest("getProperties",
                  [NoQuery EXCEPT !.features = Garden, !.sort = sp,
                                  !.limit = lm, !.page = Str(Digits(pg + d))]) :
         d \in {0, 1}} :
        sp \in SortParams, lm \in QueryNumbers \ {Undefined},
        pg \in 1..MaxQueryNum}

InitPaging ==
    /\ users = [u \in UserIds |-> NewUser]
    /\ properties \in Catalogues
    /\ requests \in PagePairs
    /\ last = NoResponse

NextPaging == \E r \in requests : getProperties(r)

SpecPaging == InitPaging /\ [][NextPaging]_vars

----------------------------------------------------------------------------
(* Property.findSimilar and getRelatedProperties. The collection is a      *)
(* sequence of documents here, listing n being the document at position n. *)

\* Math.min(req.query.limit || 6, 20)
RELATED_DEFAULT == 6
RELATED_MAX == 20

Exists(id) == id \in DOMAIN properties /\ properties[id].exists

\* The query of findSimilar without the city key.
SimilarIgnoringCity(propertyId) ==
    LET property == properties[propertyId]
    IN {id \in DOMAIN properties :
          /\ Exists(id)
          /\ id # propertyId
          /\ properties[id].validated
          /\ properties[id].type = property.type
          /\ 10 * properties[id].price >= 8 * property.price
          /\ 10 * properties[id].price <= 12 * property.price
          /\ 10 * properties[id].surface >= 8 * property.surface
          /\ 10 * properties[id].surface <= 12 * property.surface}

\* The listings matching the query findSimilar builds from the source
\* listing: _id $ne, validated, type, city, price and surface within
\* [0.8, 1.2] times the source's.
SimilarTo(propertyId) ==
    LET property == properties[propertyId]
    IN {id \in DOMAIN properties :
          /\ Exists(id)
          /\ id # propertyId
          /\ properties[id].validated
          /\ properties[id].type = property.type
          /\ properties[id].city = property.city
          /\ 10 * properties[id].price >= 8 * property.price
          /\ 10 * properties[id].price <= 12 * property.price
          /\ 10 * properties[id].surface >= 8 * property.surface
          /\ 10 * properties[id].surface <= 12 * property.surface}

\* .sort('-views'): the orders by descending views, ties in any order.
RECURSIVE ViewOrders(_)
ViewOrders(ids) ==
    IF ids = {} THEN {<<>>}
    ELSE UNION {{<<x>> \o t : t \in ViewOrders(ids \ {x})} :
                  x \in {y \in ids : \A z \in ids :
                            properties[y].views >= properties[z].views}}

\* .limit(limit): 0 is no limit.
Limited(o, limit) == IF limit = 0 THEN o ELSE ArraySlice(o, 0, limit)

\* findSimilar without the test of the source listing: the most viewed
\* validated listings.
FindSimilarToAny(propertyId, limit) ==
    {Limited(o, limit) :
        o \in ViewOrders({id \in DOMAIN properties :
                            Exists(id) /\ properties[id].validated})}

\* The results findSimilar(propertyId, limit) can return.
findSimilar(propertyId, limit) ==
    IF ~Exists(propertyId) THEN {<<>>}
    ELSE {Limited(o, limit) : o \in ViewOrders(SimilarTo(propertyId))}

RelatedRequest(id, limit) ==
    [op |-> "getRelatedProperties", id |-> id, limit |-> limit]

getRelatedProperties(r) ==
    /\ r \in requests
    /\ r.op = "getRelatedProperties"
    /\ LET limit == IF Truthy(r.limit)
                    THEN Min(JSToNumber(r.limit), RELATED_MAX)
                    ELSE RELATED_DEFAULT
       IN \E relatedProperties \in findSimilar(r.id, limit) :
             last' = Ok(r.op, "none", "none",
                        [properties |-> relatedProperties,
                         id |-> r.id, limit |-> r.limit])
    /\ requests' = requests \ {r}
    /\ UNCHANGED <<users, properties>>

Tunis == <<"T", "u", "n", "i", "s">>
Sousse == <<"S", "o", "u", "s", "s", "e">>

RelatedDoc(validated, type, city, price, surface, views) ==
    Doc(validated, price, surface, {},
        [city |-> city, type |-> type, rooms |-> 2, views |-> views,
         created_at |-> 1, words |-> {}])

\* A source listing (Villa, Tunis, price 5, surface 5), one listing in any
\* relation to it (price and surface at, inside and outside 0.8 and 1.2
\* times the source's), and possibly a similar listing with one view.
SmallCollections ==
    {<<src, other, third>> :
        src \in {NoDoc} \cup {RelatedDoc(v, "Villa", Tunis, 5, 5, 0) :
                                 v \in BOOLEAN},
        other \in {RelatedDoc(v, t, c, pr, sf, vw) :
                      v \in BOOLEAN, t \in {"Villa", "Appartement"},
                      c \in {Tunis, Sousse}, pr \in 3..7, sf \in {3, 4, 6, 7},
                      vw \in {0, 1}},
        third \in {NoDoc, RelatedDoc(TRUE, "Villa", Tunis, 5, 5, 1)}}

\* A (Villa, Tunis, 300000, 200), B (Villa, Tunis, 330000, 210) and
\* C (Villa, Sousse, 310000, 205).
ExampleCollection ==
    <<RelatedDoc(TRUE, "Villa", Tunis, 300000, 200, 0),
      RelatedDoc(TRUE, "Villa", Tunis, 330000, 210, 0),
      RelatedDoc(TRUE, "Villa", Sousse, 310000, 205, 0)>>

\* A source listing and n listings similar to it, each viewed a different
\* number of times.
LargeCollections ==
    {<<RelatedDoc(TRUE, "Villa", Tunis, 5, 5, 0)>>
        \o [i \in 1..n |-> RelatedDoc(TRUE, "Villa", Tunis, 5, 5, i + 1)] :
        n \in 0..MaxListings}

\* The limit parameter of the request: absent, or a number in digits.
RelatedLimits ==
    {Undefined} \cup
    {Str(Digits(n)) : n \in {0, 1, 2, RELATED_DEFAULT, RELATED_MAX,
                              RELATED_MAX + 1}}

\* GET /api/v1/properties/:id/related for listing 1 or an id that is not in
\* the collection.
InitRelated ==
    /\ users = [u \in UserIds |-> NewUser]
    /\ properties \in SmallCollections \cup {ExampleCollection}
                        \cup LargeCollections
    /\ \E id \in {1, Len(properties) + 1}, lm \in RelatedLimits :
          /\ Len(properties) = 3 => lm \in {Undefined, Str(<<"0">>), Str(<<"1">>)}
          /\ requests = {RelatedRequest(id, lm)}
    /\ last = NoResponse

NextRelated == \E r \in requests : getRelatedProperties(r)

SpecRelated == InitRelated /\ [][NextRelated]_vars

----------------------------------------------------------------------------
(* getPropertyStats: the aggregation over the validated listings *)

\* { $limit: 10 } of the city breakdown
TOP_CITIES == 10

ValidatedIds == {id \in DOMAIN properties : Exists(id) /\ properties[id].validated}

RECURSIVE SumOf(_, _)
SumOf(ids, field) ==
    IF ids = {} THEN 0
    ELSE LET id == CHOOSE x \in ids : TRUE
         IN properties[id][field] + SumOf(ids \ {id}, field)

\* { $avg: ... }: the quotient sum / count, kept exact.
Average(sum, count) == [t |-> "number", sum |-> sum, count |-> count]

\* { $group: { _id: '$field', count: { $sum: 1 } } } over the validated
\* listings.
GroupCounts(field) ==
    {[_id |-> k,
      count |-> Cardinality({id \in ValidatedIds : properties[id][field] = k})] :
        k \in {properties[id][field] : id \in ValidatedIds}}

\* { $sort: { count: -1 } }: ties in any order.
RECURSIVE CountOrders(_)
CountOrders(groups) ==
    IF groups = {} THEN {<<>>}
    ELSE UNION {{<<g>> \o t : t \in CountOrders(groups \ {g})} :
                  g \in {x \in groups : \A y \in groups : x.count >= y.count}}

\* The breakdown as it is, without a $limit stage.
Untruncated(o) == o

\* { $limit: 10 }
TopTen(o) == ArraySlice(o, 0, TOP_CITIES)

\* stats[0] || { totalProperties: 0, ... }: $group emits nothing for an empty
\* input, and then the $lookup stages add nothing.
StatsResults ==
    IF ValidatedIds = {}
    THEN {[totalProperties |-> 0, avgPrice |-> Num(0), avgSurface |-> Num(0),
           totalViews |-> 0, propertyTypes |-> <<>>, topCities |-> <<>>]}
    ELSE {[totalProperties |-> Cardinality(ValidatedIds),
           avgPrice |-> Average(SumOf(ValidatedIds, "price"),
                                Cardinality(ValidatedIds)),
           avgSurface |-> Average(SumOf(ValidatedIds, "surface"),
                                  Cardinality(ValidatedIds)),
           totalViews |-> SumOf(ValidatedIds, "views"),
           propertyTypes |-> types,
           topCities |-> TopTen(cities)] :
             types \in CountOrders(GroupCounts("type")),
             cities \in CountOrders(GroupCounts("city"))}

getPropertyStats ==
    /\ requests = {"getPropertyStats"}
    /\ \E stats \in StatsResults :
          last' = Ok("getPropertyStats", "none", "none", [stats |-> stats])
    /\ requests' = {}
    /\ UNCHANGED <<users, properties>>

\* City number i.
CityNo(i) == <<"C">> \o Digits(i)

\* Up to three listings, each validated or not, of either type and city,
\* with different prices and views.
FewListings ==
    LET docs == {RelatedDoc(v, t, c, pr, 5, vw) :
                    v \in BOOLEAN, t \in {"Villa", "Appartement"},
                    c \in {Tunis, Sousse}, pr \in {0, 5}, vw \in {0, 2}}
    IN UNION {[1..n -> docs] : n \in 0..3}

\* k cities, city i holding i validated listings, and one listing that is
\* not validated.
RECURSIVE CityBlocks(_)
CityBlocks(k) ==
    IF k = 0 THEN <<RelatedDoc(FALSE, "Villa", Tunis, 5, 5, 1)>>
    ELSE CityBlocks(k - 1)
           \o [j \in 1..k |-> RelatedDoc(TRUE, "Villa", CityNo(k), 5, 5, 1)]

InitStats ==
    /\ users = [u \in UserIds |-> NewUser]
    /\ properties \in FewListings \cup {CityBlocks(k) : k \in 0..MaxCities}
    /\ requests = {"getPropertyStats"}
    /\ last = NoResponse

NextStats == getPropertyStats

SpecStats == InitStats /\ [][NextStats]_vars

----------------------------------------------------------------------------
(* Property pre('save') hook: pricePerM2 *)

\* Math.round(price / surface) for price >= 0, surface > 0: halves round up.
MathRound(price, surface) == (2 * price + surface) \div (2 * surface)

\* The pricePerM2 the hook leaves on a document that held `old`.
PricePerM2OnSave(old, price, surface) ==
    IF price > 0 /\ surface > 0 THEN Num(MathRound(price, surface)) ELSE old

\* A listing document with its pricePerM2 field.
PricedDoc(price, surface, pricePerM2) ==
    [PlainDoc("p1", TRUE) EXCEPT !.price = price, !.surface = surface]
       @@ [pricePerM2 |-> pricePerM2]

\* Property.create(...): the first save of a new document.
CreatedDoc(price, surface) ==
    PricedDoc(price, surface, PricePerM2OnSave(Undefined, price, surface))

\* A change of price and surface of listing p followed by save().
SaveListing(p, price, surface) ==
    /\ properties[p].exists
    /\ properties' =
          [properties EXCEPT
              ![p] = PricedDoc(price, surface,
                               PricePerM2OnSave(properties[p].pricePerM2,
                                                price, surface))]
    /\ last' = Ok("save", "none", p, [none |-> TRUE])
    /\ UNCHANGED <<users, requests>>

\* Listing p1 as created, with any price and surface.
InitPricing ==
    /\ users = [u \in UserIds |-> NewUser]
    /\ \E price \in 0..MaxPrice, surface \in 0..MaxSurface :
          properties = [p \in PropIds |->
                          IF p = "p1" THEN CreatedDoc(price, surface) ELSE NoDoc]
    /\ requests = {}
    /\ last = NoResponse

NextPricing ==
    \E p \in PropIds, price \in 0..MaxPrice, surface \in 0..MaxSurface :
        SaveListing(p, price, surface)

SpecPricing == InitPricing /\ [][NextPricing]_vars

----------------------------------------------------------------------------
(* utils/helpers called directly *)

Call(op, args) == [op |-> op, args |-> args]

\* The value a call returned, with its arguments.
Returns(c, result) ==
    Ok(c.op, "none", "none", [args |-> c.args, result |-> result])

CallGeneratePaginationMeta(c) ==
    /\ c \in requests
    /\ c.op = "generatePaginationMeta"
    /\ last' = Returns(c, generatePaginationMeta(c.args.total, c.args.page,
                                                  c.args.limit))
    /\ requests' = requests \ {c}
    /\ UNCHANGED <<users, properties>>

CallBuildSortObject(c) ==
    /\ c \in requests
    /\ c.op = "buildSortObject"
    /\ last' = Returns(c, buildSortObject(c.args.sortParam))
    /\ requests' = requests \ {c}
    /\ UNCHANGED <<users, properties>>

PaginationCalls ==
    {Call("generatePaginationMeta",
          [total |-> t, page |-> Num(pg), limit |-> Num(lm)]) :
        t \in 0..MaxTotal, pg \in 1..MaxPage, lm \in 1..MaxPage}

SortCalls ==
    {Call("buildSortObject", [sortParam |-> sp]) :
        sp \in SortParams \cup {Str(<<k>>) : k \in ObjectPrototypeKeys}
                 \cup {Str(<<>>), Str(<<"price_asc", ",", "views">>)}}

\* One call of a helper, with any arguments.
InitHelpers ==
    /\ users = [u \in UserIds |-> NewUser]
    /\ properties = SeedCatalogue
    /\ \E c \in PaginationCalls \cup SortCalls : requests = {c}
    /\ last = NoResponse

NextHelpers ==
    \/ \E c \in requests : CallGeneratePaginationMeta(c)
    \/ \E c \in requests : CallBuildSortObject(c)

SpecHelpers == InitHelpers /\ [][NextHelpers]_vars

----------------------------------------------------------------------------
(* Properties of the favorites resolver (SpecController) *)

Validated(id) == properties[id].exists /\ properties[id].validated

Dangling(favorites) == {id \in Range(favorites) : ~Validated(id)}

\* favorites[(page-1)*limit .. (page-1)*limit+limit), page and limit numbers.
IdSlice(favorites, page, limit) ==
    SubSeq(favorites, (page - 1) * limit + 1,
           Min((page - 1) * limit + limit, Len(favorites)))

PageNumber(resp) == JSToNumber(WithDefault(resp.data.pageQ, DEFAULT_PAGE))
LimitNumber(resp) == JSToNumber(WithDefault(resp.data.limitQ, DEFAULT_LIMIT))

\* C1: for every favorites list, page >= 1 and limit >= 1, getFavorites
\* returns exactly the validated listings of the ids in
\* favorites[(page-1)*limit .. (page-1)*limit+limit), in favorites order,
\* whatever the fetch order; dangling ids are left out and the request
\* does not fail.
C1_SliceResolvedInOrder ==
    last.op = "getFavorites" =>
        /\ last.status = 200
        /\ last.data.favorites =
             SelectSeq(IdSlice(users[last.user].favorites,
                               PageNumber(last), LimitNumber(last)),
                       Validated)

\* C2: the total reported by getFavorites is the full length of the
\* favorites list, whatever the page, the limit and the dangling ids; with
\* three favorites of which the first resolves and the second does not,
\* page=1 and limit=2 give the first listing alone and total=3.
C2_TotalIsFavoritesLength ==
    last.op = "getFavorites" =>
        LET favorites == users[last.user].favorites
        IN /\ last.data.pagination.totalItems = Len(favorites)
           /\ ( /\ Len(favorites) = 3
                /\ Validated(favorites[1])
                /\ ~Validated(favorites[2])
                /\ last.data.pageQ = Str(<<"1">>)
                /\ last.data.limitQ = Str(<<"2">>) )
              => /\ last.data.favorites = <<favorites[1]>>
                 /\ last.data.pagination.totalItems = 3

C2_Witness ==
    /\ last.op = "getFavorites"
    /\ users[last.user].favorites = <<"p1", "p2", "p3">>
    /\ Validated("p1") /\ ~Validated("p2") /\ Validated("p3")
    /\ last.data.pageQ = Str(<<"1">>)
    /\ last.data.limitQ = Str(<<"2">>)
    /\ last.data.favorites = <<"p1">>
    /\ last.data.pagination.totalItems = 3

\* Page `page` of getFavorites for the limit string a client sends; the
\* result does not depend on the fetch order, so one order is taken.
FavoritesPage(favorites, page, limit) ==
    LET ids == PaginatedIds(favorites, Str(Digits(page)), Str(Digits(limit)))
    IN OrderedProperties(ids, CHOOSE f \in Orderings(FindValidatedIn(ids)) : TRUE)

\* C3: for a fixed favorites list and a fixed limit L >= 1 received from
\* the query, each of the pages 1..ceil(len/L) holds at most L listings, no
\* id is on two pages, the page lengths sum to at most len(favorites), with
\* equality exactly when no favorite is dangling, and the pages in page
\* order follow the favorites order.
C3_PagesPartitionFavorites ==
    (last.op = "getFavorites" /\ last.data.limitQ # Undefined) =>
        LET favorites == users[last.user].favorites
            L == LimitNumber(last)
            n == CeilDiv(Len(favorites), L)
            pages == [p \in 1..n |-> FavoritesPage(favorites, p, L)]
            total == SeqSum([p \in 1..n |-> Len(pages[p])])
        IN /\ PageNumber(last) \in 1..n
                => last.data.favorites = pages[PageNumber(last)]
           /\ \A p \in 1..n : Len(pages[p]) <= L
           /\ \A p, q \in 1..n :
                p # q => Range(pages[p]) \cap Range(pages[q]) = {}
           /\ total <= Len(favorites)
           /\ (total = Len(favorites)) <=> (Dangling(favorites) = {})
           /\ IsSubSeq(Concat(pages), favorites)

----------------------------------------------------------------------------
(* Properties of favoriteController.addFavorite / removeFavorite           *)
(* (SpecController)                                                        *)

\* C4: addFavorite for an id already in the user's favorites (its listing
\* still validated) leaves the stored favorites unchanged and completes
\* successfully with the 'already favorited' response: isFavorited = true
\* and no totalFavorites; it is not an error.
C4_AlreadyFavoritedIsNoOp ==
    ( /\ last.op = "addFavorite"
      /\ last.id \in Range(users[last.user].favorites)
      /\ Validated(last.id) )
    => /\ last.status = 200
       /\ last.data = [isFavorited |-> TRUE]

\* C5: removeFavorite for an id that is not in the user's favorites leaves
\* the stored favorites unchanged and completes successfully with the
\* 'not favorited' response: isFavorited = false; it is not an error.
C5_NotFavoritedIsNoOp ==
    ( /\ last.op = "removeFavorite"
      /\ last.id \notin Range(users[last.user].favorites) )
    => /\ last.status = 200
       /\ last.data = [isFavorited |-> FALSE]

----------------------------------------------------------------------------
(* Properties of the favorites mutations (Spec) *)

\* C6: in every reachable state, under every interleaving of add-favorite
\* and remove-favorite requests, also concurrent ones of one user, a user's
\* stored favorites list holds each listing id at most once.
C6_FavoritesHaveNoDuplicates ==
    \A u \in UserIds : NoDup(users[u].favorites)

\* An add request that read the row before two other adds were saved is
\* still in flight, its id stored meanwhile.
C6_Witness ==
    \E r \in requests :
        /\ r.op = "POST /:id/favorite"
        /\ r.favorites = <<r.id>>
        /\ Len(users[r.user].favorites) = 2
        /\ r.id \in Range(users[r.user].favorites)

----------------------------------------------------------------------------
(* Properties of the public list operations (SpecSearch) *)

ListOps == {"getProperties", "searchProperties", "getPropertiesByCity"}

Returned == Range(last.data.properties)

\* C8: every listing returned by getProperties, searchProperties and
\* getPropertiesByCity has validated = true, whatever the other filter, sort
\* and pagination parameters are.
C8_OnlyValidatedListed ==
    (last.op \in ListOps /\ last.status = 200) =>
        \A id \in Returned : Validated(id)

\* A search without any filter returns a listing while the collection also
\* holds a listing that is not validated.
C8_Witness ==
    /\ last.op = "searchProperties"
    /\ last.status = 200
    /\ last.data.query = NoQuery
    /\ Returned # {}
    /\ \E id \in PropIds : properties[id].exists /\ ~properties[id].validated

\* The bound a numeric parameter stands for: none when it is absent.
AtLeast(bound, n) == bound.t = "number" => bound.v <= n
AtMost(bound, n) == bound.t = "number" => n <= bound.v

\* The request carries nothing but price / surface bounds given as numbers.
OnlyNumericBounds(q) ==
    /\ q = [NoQuery EXCEPT !.priceMin = q.priceMin, !.priceMax = q.priceMax,
                           !.surfaceMin = q.surfaceMin,
                           !.surfaceMax = q.surfaceMax]
    /\ \A b \in {q.priceMin, q.priceMax, q.surfaceMin, q.surfaceMax} :
          b.t \in {"undefined", "number"}

\* C9: for supplied priceMin, priceMax, surfaceMin, surfaceMax (any
\* non-negative number, 0 included) the predicate built by Property.search
\* admits a listing only if priceMin <= price <= priceMax and
\* surfaceMin <= surface <= surfaceMax, bounds inclusive; a supplied bound is
\* always enforced and an absent one imposes nothing: a search by bounds
\* alone returns exactly the validated listings within the supplied bounds.
C9_SuppliedBoundsEnforced ==
    (last.op = "searchProperties" /\ last.status = 200
        /\ OnlyNumericBounds(last.data.query)) =>
        LET q == last.data.query
        IN Returned =
             {id \in PropIds :
                 /\ Validated(id)
                 /\ AtLeast(q.priceMin, properties[id].price)
                 /\ AtMost(q.priceMax, properties[id].price)
                 /\ AtLeast(q.surfaceMin, properties[id].surface)
                 /\ AtMost(q.surfaceMax, properties[id].surface)}

\* The request carries nothing but (possibly) a features parameter.
OnlyFeatures(q) == q = [NoQuery EXCEPT !.features = q.features]

\* The validated listings that have every feature of F.
HavingAll(F) ==
    {id \in PropIds : Validated(id) /\ F \subseteq properties[id].features}

\* C10: the feature filter is set containment and monotonic: for every
\* required set F, the empty set that getProperties passes when no features
\* parameter is given included, a listing matches F exactly when all features
\* of F are among its features, and for every feature f the listings matching
\* F with f added are among the listings matching F.
C10_FeatureFilterIsContainment ==
    (last.op = "getProperties" /\ last.status = 200
        /\ OnlyFeatures(last.data.query)) =>
        LET required == parseArrayFromQuery(last.data.query.features)
        IN /\ Returned = HavingAll(Range(required))
           /\ \A f \in FeatureNames :
                 Found(search([NoQuery EXCEPT
                                 !.features = Arr(Append(required, f))]))
                    \subseteq Returned

\* The numeric parameters of q that do not hold a number.
NumericParams == {"priceMin", "priceMax", "surfaceMin", "surfaceMax", "rooms"}

Malformed(q) == {k \in NumericParams : q[k].t = "string" /\ ~IsNumeric(q[k])}

\* The request without its malformed parameters.
WithoutMalformed(q) ==
    [k \in DOMAIN q |-> IF k \in Malformed(q) THEN Undefined ELSE q[k]]

\* C11: a non-numeric value for priceMin, priceMax, surfaceMin, surfaceMax or
\* rooms is treated as if the parameter were absent: the search returns what
\* the request without that parameter returns and never an error response.
C11_MalformedNumbersIgnored ==
    (last.op = "searchProperties" /\ Malformed(last.data.query) # {}) =>
        /\ last.status = 200
        /\ Returned = Found(search(WithoutMalformed(last.data.query)))

\* The page size the request asks for, and the one within 1..MAX_LIMIT that
\* is to serve it.
RequestedSize(q) ==
    IF q.limit = Undefined THEN DEFAULT_LIMIT ELSE JSToNumber(q.limit)

EffectiveSize(q) ==
    IF RequestedSize(q) < 1 THEN 1
    ELSE IF RequestedSize(q) > MAX_LIMIT THEN MAX_LIMIT
    ELSE RequestedSize(q)

\* C12: for every requested page size the list operations use an effective
\* page size within 1..100 (20 when absent): a value below 1 is raised to 1,
\* a value above 100 is lowered to 100, the request is served, and no page
\* holds more listings than the effective size.
C12_PageSizeClamped ==
    (last.op = "getProperties" /\ Malformed(last.data.query) = {}) =>
        /\ last.status = 200
        /\ JSToNumber(last.data.pagination.itemsPerPage)
              = EffectiveSize(last.data.query)
        /\ Len(last.data.properties) <= EffectiveSize(last.data.query)

----------------------------------------------------------------------------
(* Properties of the helpers (SpecHelpers) *)

\* The least number of pages of `limit` items that hold `total` items.
LeastPages(total, limit) ==
    CHOOSE k \in 0..total : k * limit >= total /\ \A j \in 0..(k - 1) : j * limit < total

\* C13: generatePaginationMeta(total, page, limit) returns, for total >= 0,
\* page >= 1 and limit >= 1, totalPages = ceil(total / limit), currentPage =
\* page, totalItems = total, hasNext = (page < totalPages) and hasPrev =
\* (page > 1); total = 0 gives totalPages = 0 and hasNext = false.
C13_PaginationMeta ==
    last.op = "generatePaginationMeta" =>
        LET a == last.data.args
            m == last.data.result
            pages == LeastPages(a.total, a.limit.v)
        IN /\ m.totalPages = pages
           /\ m.currentPage = a.page
           /\ m.totalItems = a.total
           /\ m.itemsPerPage = a.limit
           /\ m.hasNext = (a.page.v < pages)
           /\ m.hasPrev = (a.page.v > 1)
           /\ a.total = 0 => (m.totalPages = 0 /\ ~m.hasNext)

\* The metadata of page 2 of 5 items in pages of 2: three pages, one more to
\* come.
C13_Witness ==
    /\ last.op = "generatePaginationMeta"
    /\ last.data.args = [total |-> 5, page |-> Num(2), limit |-> Num(2)]
    /\ last.data.result.totalPages = 3
    /\ last.data.result.hasNext

\* The ordering each keyword stands for.
KeywordOrdering(k) ==
    CASE k = "price_asc" -> [field |-> "price", dir |-> 1]
      [] k = "price_desc" -> [field |-> "price", dir |-> -1]
      [] k = "surface_asc" -> [field |-> "surface", dir |-> 1]
      [] k = "surface_desc" -> [field |-> "surface", dir |-> -1]
      [] k = "views" -> [field |-> "views", dir |-> -1]
      [] OTHER -> [field |-> "created_at", dir |-> -1]

\* C15: buildSortObject maps each keyword of newest, price_asc, price_desc,
\* surface_asc, surface_desc, views to its single-key ordering and an absent
\* or unrecognised keyword to the newest ordering (created_at descending).
C15_SortKeywords ==
    last.op = "buildSortObject" =>
        last.data.result = KeywordOrdering(PropertyKey(last.data.args.sortParam))

----------------------------------------------------------------------------
(* Properties of paging through getProperties (SpecPaging) *)

\* Response b is the page after response a of the same query.
NextPageOf(a, b) ==
    /\ a.op = "getProperties" /\ a.status = 200
    /\ b.op = "getProperties" /\ b.status = 200
    /\ b.data.query =
          [a.data.query EXCEPT
              !.page = Str(Digits(JSToNumber(a.data.query.page) + 1))]

\* C14: for every filter, sort keyword and page size, with no concurrent
\* mutation of the collection, no listing id appears both on page p and on
\* page p + 1 of getProperties, and every listing on a page satisfies the
\* filter; also when several listings tie on the sort key.
C14_PagesDisjoint ==
    [][(NextPageOf(last, last') \/ NextPageOf(last', last)) =>
          /\ Range(last.data.properties) \cap Range(last'.data.properties) = {}
          /\ \A id \in Range(last'.data.properties) :
                Validated(id) /\ <<"garden">> \in properties[id].features]_vars

----------------------------------------------------------------------------
(* Properties of findSimilar / getRelatedProperties (SpecRelated) *)

RelatedServed == last.op = "getRelatedProperties" /\ last.status = 200

\* n lies within 0.8 and 1.2 times m.
Within20Percent(n, m) == 4 * m <= 5 * n /\ 5 * n <= 6 * m

\* C16: every listing returned by findSimilar(S) is validated, is not S, has
\* the type and the city of S, a price within [0.8, 1.2] times the price of S
\* and a surface within [0.8, 1.2] times the surface of S; for the listings
\* A, B, C of the example the result for A is [B].
C16_SimilarListings ==
    RelatedServed =>
        /\ \A id \in Range(last.data.properties) :
              LET S == properties[last.data.id]
                  L == properties[id]
              IN /\ L.exists /\ L.validated
                 /\ id # last.data.id
                 /\ L.type = S.type
                 /\ L.city = S.city
                 /\ Within20Percent(L.price, S.price)
                 /\ Within20Percent(L.surface, S.surface)
        /\ (properties = ExampleCollection /\ last.data.id = 1) =>
              last.data.properties = <<2>>

\* The example: the related listings of A are served, B alone.
C16_Witness ==
    /\ RelatedServed
    /\ properties = ExampleCollection
    /\ last.data.id = 1
    /\ last.data.properties = <<2>>

ViewsOf(id) == properties[id].views

\* C17: getRelatedProperties returns at most `limit` listings, limit being 6
\* by default, and no value of the limit parameter (0 and values above 20
\* included) makes it return more than 20; the listings returned are the
\* most viewed of all matches, in descending order of views.
C17_RelatedCapped ==
    (RelatedServed /\ Exists(last.data.id)) =>
        LET related == last.data.properties
            limit == last.data.limit
        IN /\ Len(related) <= RELATED_MAX
           /\ limit = Undefined => Len(related) <= RELATED_DEFAULT
           /\ (limit # Undefined /\ JSToNumber(limit) >= 1) =>
                 Len(related) <= JSToNumber(limit)
           /\ \A i, j \in DOMAIN related :
                 i < j => ViewsOf(related[i]) >= ViewsOf(related[j])
           /\ \A id \in SimilarTo(last.data.id) \ Range(related) :
                 \A x \in Range(related) : ViewsOf(x) >= ViewsOf(id)

\* C18: when the source listing id does not exist, findSimilar /
\* getRelatedProperties returns an empty list as a successful result, with no
\* not-found error and no change to any stored state.
C18_MissingSourceGivesEmptyList ==
    [][(last'.op = "getRelatedProperties" /\ ~Exists(last'.data.id)) =>
          /\ last'.status = 200
          /\ last'.data.properties = <<>>
          /\ UNCHANGED <<users, properties>>]_vars

\* Related listings were asked for an id that is not in a collection holding
\* validated listings, and the empty list was served.
C18_Witness ==
    /\ RelatedServed
    /\ ~Exists(last.data.id)
    /\ \E id \in DOMAIN properties : Exists(id) /\ properties[id].validated
    /\ last.data.properties = <<>>

----------------------------------------------------------------------------
(* Properties of getPropertyStats (SpecStats) *)

\* C19: with no validated listing getPropertyStats reports totalProperties,
\* avgPrice, avgSurface and totalViews 0 and two empty breakdowns, never null
\* or an error; with validated listings totalProperties is their number,
\* totalViews the sum of their views, and the city breakdown has at most 10
\* entries in descending order of count.
C19_Stats ==
    last.op = "getPropertyStats" =>
        LET stats == last.data.stats
            listed == {id \in DOMAIN properties : Validated(id)}
        IN /\ last.status = 200
           /\ listed = {} =>
                 /\ stats.totalProperties = 0 /\ stats.totalViews = 0
                 /\ stats.avgPrice = Num(0) /\ stats.avgSurface = Num(0)
                 /\ stats.propertyTypes = <<>> /\ stats.topCities = <<>>
           /\ listed # {} =>
                 /\ stats.totalProperties = Cardinality(listed)
                 /\ stats.totalViews = SumOf(listed, "views")
                 /\ Len(stats.topCities) <= TOP_CITIES
                 /\ \A i, j \in DOMAIN stats.topCities :
                       i < j => stats.topCities[i].count >= stats.topCities[j].count

\* Statistics were served for validated listings in more than ten cities.
C19_Witness ==
    /\ last.op = "getPropertyStats"
    /\ Cardinality({properties[id].city : id \in ValidatedIds}) > TOP_CITIES
    /\ Len(last.data.stats.topCities) = TOP_CITIES

----------------------------------------------------------------------------
(* Properties of the pricePerM2 hook (SpecPricing) *)

\* n is price / surface rounded to the nearest integer.
IsRounded(n, price, surface) ==
    2 * surface * n <= 2 * price + surface /\ 2 * price + surface < 2 * surface * (n + 1)

\* C20: for every listing with surface > 0, after any save that follows a
\* change of price or surface (price = 0 included), pricePerM2 equals
\* round(price / surface); when surface is 0 the field is unset, so that no
\* value computed from an earlier surface remains stored.
C20_PricePerM2Current ==
    last.op = "save" =>
        LET doc == properties[last.id]
        IN IF doc.surface > 0
           THEN /\ doc.pricePerM2 # Undefined
                /\ IsRounded(doc.pricePerM2.v, doc.price, doc.surface)
           ELSE doc.pricePerM2 = Undefined

----------------------------------------------------------------------------
(* propertyController.incrementViews over Property.incrementViews (SpecViews) *)

MaxViews == 3

Slots == 1..MaxInFlight

\* A document instance held by one running incrementViews request: views is
\* the instance's in-memory counter.
ViewInstance(slot, p, views) ==
    [op |-> "incrementViews", slot |-> slot, id |-> p, views |-> views]

\* Property.findById(id) found nothing: AppError 404 PROPERTY_NOT_FOUND.
IncrementViewsNotFound(p) ==
    /\ ~properties[p].exists
    /\ last' = Err("incrementViews", "none", p, 404, "PROPERTY_NOT_FOUND")
    /\ UNCHANGED <<users, properties, requests>>

\* Property.findById(id), then this.views += 1 on the loaded instance, up
\* to the await of this.save().
IncrementViewsLoad(slot, p) ==
    /\ properties[p].exists
    /\ properties[p].views < MaxViews
    /\ \A r \in requests : r.slot # slot
    /\ requests' = requests \cup {ViewInstance(slot, p, properties[p].views + 1)}
    /\ UNCHANGED <<users, properties, last>>

\* this.save() completes: the modified path views is written with the
\* instance's value, then res.json({ data: { views: property.views } }).
IncrementViewsSave(r) ==
    /\ r \in requests
    /\ properties' = [properties EXCEPT ![r.id].views = r.views]
    /\ requests' = requests \ {r}
    /\ last' = Ok("incrementViews", "none", r.id, [views |-> r.views])
    /\ UNCHANGED users

InitViews ==
    /\ users = [u \in UserIds |-> NewUser]
    /\ properties = SeedCatalogue
    /\ requests = {}
    /\ last = NoResponse

NextViews ==
    \/ \E p \in PropIds : IncrementViewsNotFound(p)
    \/ \E slot \in Slots, p \in PropIds : IncrementViewsLoad(slot, p)
    \/ \E r \in requests : IncrementViewsSave(r)

SpecViews == InitViews /\ [][NextViews]_vars

----------------------------------------------------------------------------
(* Properties of the view counter (SpecViews) *)

\* C21: under every interleaving of concurrent incrementViews requests on
\* the same listing, the persisted view count of a listing never decreases.
C21_ViewsNeverDecrease ==
    [][\A p \in PropIds :
          properties[p].exists => properties'[p].views >= properties[p].views]_vars

----------------------------------------------------------------------------
(* Concurrent favorites mutations (Spec) *)

\* C22: favorites are written back whole by an unlocked read-modify-write:
\* the save of a request replaces the persisted list by the list that
\* request read and changed, and reports success, whatever other requests
\* saved in between; so of two concurrent adds of one user for two
\* different ids, the later save drops the id of the earlier one.
C22_LastWriteWins ==
    [][\A r \in requests :
          requests' = requests \ {r} =>
             /\ users'[r.user].favorites = r.favorites
             /\ \A u \in UserIds \ {r.user} : users'[u] = users[u]
             /\ last' = Ok(r.op, r.user, r.id, [none |-> TRUE])]_vars

\* One add of a user has saved and reported success while another add of
\* the same user for a different id, loaded before that save, is about to
\* save a list without the first id.
C22_Witness ==
    \E r \in requests :
       /\ r.op = "POST /:id/favorite"
       /\ last = Ok("POST /:id/favorite", r.user, last.id, [none |-> TRUE])
       /\ last.id # r.id
       /\ users[r.user].favorites = <<last.id>>
       /\ r.favorites = <<r.id>>

----------------------------------------------------------------------------
(* User.addToSearchHistory (SpecHistory) *)

maxHistorySize == 50

MaxCalls == 2

\* A search query is a JavaScript object: its own properties in insertion
\* order, each a key with a value.
Pair(k, v) == [k |-> k, v |-> v]

\* JSON.stringify(query): the properties serialised in the object's own
\* order, so that two serialisations are equal exactly when the two
\* sequences are.
JSONStringify(query) == query

\* A JSONB column does not keep the key order of an object: what is read back
\* has its keys in the store's order (shorter keys first, then bytewise).
JsonbKeyOrder == <<"city", "type">>

Jsonb(query) ==
    SelectSeq(query, LAMBDA e : e.k = JsonbKeyOrder[1])
       \o SelectSeq(query, LAMBDA e : e.k = JsonbKeyOrder[2])

\* searchQuery.results_count || 0
ResultsCount(query) ==
    IF \E i \in DOMAIN query : query[i].k = "results_count" /\ query[i].v # 0
    THEN (CHOOSE e \in Range(query) : e.k = "results_count").v
    ELSE 0

HistoryEntry(query, timestamp) ==
    [query |-> query, timestamp |-> timestamp,
     results_count |-> ResultsCount(query)]

\* userSchema addToSearchHistory up to this.save(): filter out the entries
\* whose serialised query equals the serialised searchQuery, unshift the new
\* entry, slice(0, maxHistorySize).
addToSearchHistory(searchHistory, searchQuery, now) ==
    LET kept == SelectSeq(searchHistory,
                   LAMBDA item : JSONStringify(item.query) # JSONStringify(searchQuery))
        added == <<HistoryEntry(searchQuery, now)>> \o kept
    IN IF Len(added) > maxHistorySize
       THEN SubSeq(added, 1, maxHistorySize)
       ELSE added

\* The searchHistory column as the store returns it after a save.
StoredHistory(searchHistory) ==
    [i \in DOMAIN searchHistory |->
        [searchHistory[i] EXCEPT !.query = Jsonb(searchHistory[i].query)]]

CityQuery(n) == <<Pair("city", n)>>
CityTypeQuery == <<Pair("city", 1), Pair("type", 1)>>
TypeCityQuery == <<Pair("type", 1), Pair("city", 1)>>

\* The queries of the calls: present and absent ones, and one query written
\* with its two keys in either order.
SearchQueries ==
    {CityQuery(1), CityQuery(2), CityQuery(maxHistorySize + 1),
     CityQuery(maxHistorySize + 2), CityTypeQuery, TypeCityQuery}

\* A history of k earlier searches, CityQuery(1) the oldest.
EarlierHistory(k) ==
    [i \in 1..k |-> HistoryEntry(CityQuery(k + 1 - i), k + 1 - i)]

\* new Date() of the next call: later than every stored timestamp.
Now == IF last.op = "none" THEN maxHistorySize + 1 ELSE last.data.now + 1

\* One call of user.addToSearchHistory(searchQuery) on the loaded record,
\* this.save() included.
AddToSearchHistory(u, searchQuery) ==
    /\ Now <= maxHistorySize + MaxCalls
    /\ users' = [users EXCEPT ![u].searchHistory =
                    StoredHistory(addToSearchHistory(@, searchQuery, Now))]
    /\ last' = Ok("addToSearchHistory", u, "none",
                  [now |-> Now, query |-> searchQuery])
    /\ UNCHANGED <<properties, requests>>

InitHistory ==
    /\ \E k \in 0..maxHistorySize :
          users = [u \in UserIds |->
                     [favorites |-> <<>>, searchHistory |-> EarlierHistory(k)]]
    /\ properties = SeedCatalogue
    /\ requests = {}
    /\ last = NoResponse

NextHistory ==
    \E u \in UserIds, searchQuery \in SearchQueries :
       AddToSearchHistory(u, searchQuery)

SpecHistory == InitHistory /\ [][NextHistory]_vars

----------------------------------------------------------------------------
(* Properties of the search history (SpecHistory) *)

\* Two queries are equal when they have the same keys with the same values.
EqualQueries(a, b) == Range(a) = Range(b)

NoEqualQueries(h) ==
    \A i, j \in DOMAIN h : i # j => ~EqualQueries(h[i].query, h[j].query)

NewestFirst(h) ==
    \A i, j \in DOMAIN h : i < j => h[i].timestamp > h[j].timestamp

HasQuery(h, q) == \E i \in DOMAIN h : EqualQueries(h[i].query, q)

\* C23: after any sequence of addToSearchHistory calls the history has at
\* most 50 entries, no two entries have equal queries, entries are newest
\* first with the most recent query at index 0, re-adding a present query
\* keeps the length, and adding a distinct query to a full history drops
\* the oldest entry.
C23_SearchHistory ==
    [][\A u \in UserIds :
          users'[u] # users[u] =>
             LET h == users[u].searchHistory
                 g == users'[u].searchHistory
                 q == last'.data.query
             IN /\ Len(g) <= maxHistorySize
                /\ NoEqualQueries(g)
                /\ NewestFirst(g)
                /\ EqualQueries(g[1].query, q)
                /\ HasQuery(h, q) => Len(g) = Len(h)
                /\ ~HasQuery(h, q) /\ Len(h) = maxHistorySize =>
                      /\ Len(g) = maxHistorySize
                      /\ \A i \in 2..maxHistorySize : g[i] = h[i - 1]]_vars

----------------------------------------------------------------------------
(* Accounts: authMiddleware, authController, userController, auth routes
   (SpecAccount) *)

\* bcrypt.hash(password): a value from which the password is not read back;
\* bcrypt.compare(candidate, hash) is true exactly for the hashed password.
bcryptHash(password) == [bcrypt |-> password]

PasswordOf(u) == <<"password of ", u>>

EmailOf(u) == <<u, "@nestify.tn">>

LocalPhone == <<"2", "0", "0", "0", "0", "0", "0", "1">>

\* A row of the users table (User model), the columns the handlers read or
\* write; password holds what the beforeSave hook stored.
Account(u, isActive) ==
    [id |-> u, email |-> EmailOf(u), phone |-> <<"+", "2", "1", "6">> \o LocalPhone,
     password |-> bcryptHash(PasswordOf(u)), isActive |-> isActive,
     favorites |-> <<>>]

\* instance.toJSON(): a copy of every column of the row.
toJSON(user) == user

\* User.prototype.toSafeObject
toSafeObject(user) ==
    [k \in DOMAIN toJSON(user) \ {"password", "verificationToken",
                                  "resetPasswordToken", "resetPasswordExpires"}
        |-> toJSON(user)[k]]

MaxIssued == 2

\* A bearer or refresh token: the payload's userId, the time it was signed
\* (iat) and whether jwt.verify accepts the signature and expiry.
Token(userId, tokenType, iat, verifies) ==
    [userId |-> userId, tokenType |-> tokenType, iat |-> iat,
     verifies |-> verifies]

\* No Authorization header, or none starting with "Bearer ".
NoToken == Token("none", "none", 0, FALSE)

\* generateTokens(userId) at time iat
generateTokens(userId, iat) ==
    [accessToken |-> Token(userId, "access", iat, TRUE),
     refreshToken |-> Token(userId, "refresh", iat, TRUE)]

\* authConfig.verifyToken(token): throws unless the token verifies; the
\* tokenType is not looked at.
verifyToken(token) == token.verifies

\* Ids named by tokens: the accounts and one id without a row.
TokenUserIds == UserIds \cup {"u3"}

Tokens ==
    {NoToken} \cup {Token(u, t, iat, v) : u \in TokenUserIds,
                                         t \in {"access", "refresh"},
                                         iat \in 0..MaxIssued, v \in BOOLEAN}

\* authMiddleware without the isActive test.
PassInactive(token) ==
    IF token = NoToken
    THEN [next |-> FALSE, status |-> 401, code |-> "AUTH_NO_TOKEN"]
    ELSE IF ~verifyToken(token)
    THEN [next |-> FALSE, status |-> 401, code |-> "AUTH_TOKEN_INVALID"]
    ELSE IF token.userId \notin UserIds
    THEN [next |-> FALSE, status |-> 401, code |-> "USER_NOT_FOUND"]
    ELSE [next |-> TRUE, status |-> 0, code |-> "none"]

\* authMiddleware: extractToken, verifyToken, User.findByPk, isActive; next
\* is whether next() is called, otherwise the response it sends.
authMiddleware(token) ==
    IF token = NoToken
    THEN [next |-> FALSE, status |-> 401, code |-> "AUTH_NO_TOKEN"]
    ELSE IF ~verifyToken(token)
    THEN [next |-> FALSE, status |-> 401, code |-> "AUTH_TOKEN_INVALID"]
    ELSE IF token.userId \notin UserIds
    THEN [next |-> FALSE, status |-> 401, code |-> "USER_NOT_FOUND"]
    ELSE IF ~users[token.userId].isActive
    THEN [next |-> FALSE, status |-> 401, code |-> "AUTH_UNAUTHORIZED"]
    ELSE [next |-> TRUE, status |-> 0, code |-> "none"]

\* The routes behind router.use(authMiddleware).
ProtectedOps ==
    {"getMe", "logout", "getProfile", "updateProfile", "deleteAccount",
     "changePassword"}

\* A response of a protected route: the request's token and body, and
\* whether the route's handler ran.
Answered(response, token, body, handler) ==
    [response EXCEPT !.data = [token |-> token, body |-> body,
                               handler |-> handler, result |-> @]]

\* authMiddleware sends the response itself and the handler is not called.
AuthRejects(op, token) ==
    /\ ~authMiddleware(token).next
    /\ last' = Answered(Err(op, "none", "none", authMiddleware(token).status,
                            authMiddleware(token).code),
                        token, [none |-> TRUE], FALSE)
    /\ UNCHANGED <<users, properties, requests>>

\* authMiddleware's catch: User.findByPk rejected (the store is unreachable).
AuthStoreError(op, token) ==
    /\ token # NoToken
    /\ verifyToken(token)
    /\ last' = Answered(Err(op, "none", "none", 500, "SERVER_ERROR"),
                        token, [none |-> TRUE], FALSE)
    /\ UNCHANGED <<users, properties, requests>>

\* Property.find({ _id: { $in: user.favorites || [] } }): any status.
FavoriteProperties(user) ==
    {id \in PropIds : id \in Range(user.favorites) /\ properties[id].exists}

\* authController.getMe: User.findByPk(req.userId), then
\* { ...user.toJSON(), favoriteProperties }.
getMe(token) ==
    /\ authMiddleware(token).next
    /\ LET user == users[token.userId]
       IN last' = Answered(Ok("getMe", token.userId, "none",
                              [user |-> toJSON(user),
                               favoriteProperties |-> FavoriteProperties(user)]),
                           token, [none |-> TRUE], TRUE)
    /\ UNCHANGED <<users, properties, requests>>

\* userController.getProfile: the same with limit(10).
getProfile(token) ==
    /\ authMiddleware(token).next
    /\ LET user == users[token.userId]
       IN last' = Answered(Ok("getProfile", token.userId, "none",
                              [user |-> toJSON(user),
                               favoriteProperties |-> FavoriteProperties(user)]),
                           token, [none |-> TRUE], TRUE)
    /\ UNCHANGED <<users, properties, requests>>

\* validators.formatTunisianPhone
formatTunisianPhone(phone) ==
    LET cleaned == SelectSeq(phone, LAMBDA c : c \in Range(DigitChars))
    IN IF Len(cleaned) = 8 THEN <<"+", "2", "1", "6">> \o cleaned
       ELSE IF Len(cleaned) = 11 /\ SubSeq(cleaned, 1, 3) = <<"2", "1", "6">>
       THEN <<"+">> \o cleaned
       ELSE phone

\* Request bodies of PUT /users/profile: fullName and phone, each optional.
ProfileBodies ==
    [fullName : {Undefined, Str(<<"Full Name">>)},
     phone : {Undefined, Str(LocalPhone), Str(<<"2", "1", "6">> \o LocalPhone)}]

\* userController.updateProfile: fullName and language are not columns of
\* the User model, so they stay on the instance; phone is saved.
updateProfile(token, body) ==
    /\ authMiddleware(token).next
    /\ LET user == users[token.userId]
           phone == IF Truthy(body.phone) THEN formatTunisianPhone(body.phone.s)
                    ELSE user.phone
       IN /\ users' = [users EXCEPT ![token.userId].phone = phone]
          /\ last' = Answered(Ok("updateProfile", token.userId, "none",
                                 [user |-> [id |-> user.id, email |-> user.email,
                                            fullName |-> body.fullName,
                                            phone |-> phone]]),
                              token, body, TRUE)
    /\ UNCHANGED <<properties, requests>>

\* password of the body of deleteAccount: missing, another one, the
\* account's own.
PasswordInputs(u) == {Undefined, Str(<<"another password">>), Str(PasswordOf(u))}

\* userController.deleteAccount: 400 without a password; otherwise
\* User.findById(req.userId).select('+password') throws a TypeError (the
\* User model has findByPk and no findById; no query has select), which
\* errorHandler answers with 500, before anything is read or written.
deleteAccount(token, password) ==
    /\ authMiddleware(token).next
    /\ password \in PasswordInputs(token.userId)
    /\ last' = Answered(IF ~Truthy(password)
                        THEN Err("deleteAccount", token.userId, "none",
                                 400, "VALIDATION_ERROR")
                        ELSE Err("deleteAccount", token.userId, "none",
                                 500, "SERVER_ERROR"),
                        token, [password |-> password], TRUE)
    /\ UNCHANGED <<users, properties, requests>>

\* userController.changePassword: 400 unless both passwords are given;
\* otherwise the same TypeError.
changePassword(token, currentPassword, newPassword) ==
    /\ authMiddleware(token).next
    /\ currentPassword \in PasswordInputs(token.userId)
    /\ newPassword \in {Undefined, Str(<<"new password">>)}
    /\ last' = Answered(IF ~Truthy(currentPassword) \/ ~Truthy(newPassword)
                        THEN Err("changePassword", token.userId, "none",
                                 400, "VALIDATION_ERROR")
                        ELSE Err("changePassword", token.userId, "none",
                                 500, "SERVER_ERROR"),
                        token, [currentPassword |-> currentPassword,
                                newPassword |-> newPassword], TRUE)
    /\ UNCHANGED <<users, properties, requests>>

\* authController.logout: user.refreshToken = null sets a property that is
\* no column, save() writes nothing.
logout(token) ==
    /\ authMiddleware(token).next
    /\ last' = Answered(Ok("logout", token.userId, "none", [none |-> TRUE]),
                        token, [none |-> TRUE], TRUE)
    /\ UNCHANGED <<users, properties, requests>>

\* Emails of register and login requests: the accounts' and a new one.
Emails == {EmailOf(u) : u \in UserIds} \cup {<<"new", "@nestify.tn">>}

\* User.findByEmail(email)
findByEmail(email) == {u \in UserIds : users[u].email = email}

\* authController.register: 409 when the email has a row; otherwise
\* User.create({ email, password, phone, fullName }) has no name, the
\* notNull validation rejects and errorHandler answers 500.
register(email) ==
    /\ last' = [IF findByEmail(email) # {}
                THEN Err("register", "none", "none", 409, "USER_ALREADY_EXISTS")
                ELSE Err("register", "none", "none", 500, "SERVER_ERROR")
                EXCEPT !.data = [email |-> email]]
    /\ UNCHANGED <<users, properties, requests>>

\* authController.login: User.findByCredentials is not defined, TypeError.
login(email) ==
    /\ last' = [Err("login", "none", "none", 500, "SERVER_ERROR")
                EXCEPT !.data = [email |-> email]]
    /\ UNCHANGED <<users, properties, requests>>

\* authController.refreshToken: 401 when the token does not verify;
\* otherwise User.findOne({ where: { id, refreshToken } }) names a column
\* the model does not define: the store rejects the query (500) or, where
\* the table has such a column, nothing ever wrote it and no row matches
\* (401).
refreshToken(token, status) ==
    /\ status \in IF verifyToken(token) THEN {401, 500} ELSE {401}
    /\ last' = [Err("refreshToken", "none", "none", status,
                    IF status = 401 THEN "AUTH_TOKEN_INVALID" ELSE "SERVER_ERROR")
                EXCEPT !.data = [presented |-> token]]
    /\ UNCHANGED <<users, properties, requests>>

\* The time of a response that issues tokens: later than the tokens of the
\* response before it.
IssuedAt ==
    IF last.op = "POST /refresh" /\ last.status = 200
    THEN last.data.tokens.refreshToken.iat + 1
    ELSE 1

\* router.post('/refresh') of the auth routes: jwt.verify, User.findByPk,
\* isActive, then new tokens; no token is stored or compared.
PostRefresh(token) ==
    /\ IssuedAt <= MaxIssued
    /\ last' = IF \/ token = NoToken
                  \/ ~verifyToken(token)
                  \/ token.userId \notin UserIds
                  \/ ~users[token.userId].isActive
               THEN [Err("POST /refresh", "none", "none", 401,
                         "Invalid refresh token")
                     EXCEPT !.data = [presented |-> token]]
               ELSE Ok("POST /refresh", token.userId, "none",
                       [presented |-> token,
                        tokens |-> generateTokens(token.userId, IssuedAt)])
    /\ UNCHANGED <<users, properties, requests>>

\* The users table: every account, active or deactivated.
InitAccount ==
    /\ users \in [UserIds -> {Account(u, a) : u \in UserIds, a \in BOOLEAN}]
    /\ \A u \in UserIds : users[u].id = u
    /\ properties = SeedCatalogue
    /\ requests = {}
    /\ last = NoResponse

NextAccount ==
    \/ \E op \in ProtectedOps, token \in Tokens : AuthRejects(op, token)
    \/ \E op \in ProtectedOps, token \in Tokens : AuthStoreError(op, token)
    \/ \E token \in Tokens : getMe(token)
    \/ \E token \in Tokens : getProfile(token)
    \/ \E token \in Tokens, body \in ProfileBodies : updateProfile(token, body)
    \/ \E token \in Tokens : \E password \in PasswordInputs(token.userId) :
          deleteAccount(token, password)
    \/ \E token \in Tokens : \E currentPassword \in PasswordInputs(token.userId),
          newPassword \in {Undefined, Str(<<"new password">>)} :
          changePassword(token, currentPassword, newPassword)
    \/ \E token \in Tokens : logout(token)
    \/ \E email \in Emails : register(email)
    \/ \E email \in Emails : login(email)
    \/ \E token \in Tokens, status \in {401, 500} : refreshToken(token, status)
    \/ \E token \in Tokens : PostRefresh(token)

SpecAccount == InitAccount /\ [][NextAccount]_vars

----------------------------------------------------------------------------
(* Properties of the account operations (SpecAccount) *)

\* C24: deleteAccount with the account's password keeps the user record,
\* sets isActive = false and replaces the email by a value different from
\* the original, so that no row has the original email when a later register
\* request looks for it; deleteAccount with a missing or wrong password
\* leaves the user record unchanged.
C24_SoftDelete ==
    last.op = "deleteAccount" /\ last.data.handler =>
        LET u == last.user
        IN IF last.data.body.password = Str(PasswordOf(u))
           THEN /\ last.status = 200
                /\ ~users[u].isActive
                /\ users[u].email # EmailOf(u)
                /\ findByEmail(EmailOf(u)) = {}
           ELSE /\ last.status # 200
                /\ users[u].isActive
                /\ users[u].email = EmailOf(u)

\* C26: the password is stored only as a hash, and no response of register,
\* login, getMe, getProfile or updateProfile contains the user's password
\* field, neither in plain text nor as the stored hash.
C26_PasswordNeverReturned ==
    /\ \A u \in UserIds : users[u].password = bcryptHash(PasswordOf(u))
    /\ last.op \in {"register", "login", "getMe", "getProfile", "updateProfile"}
          /\ last.status = 200 =>
             "password" \notin DOMAIN last.data.result.user

\* C28: a refresh token is accepted at most once: no two refresh requests
\* presenting the same token both succeed, and no refresh succeeds right
\* after a completed logout or password change of the token's user, whose
\* tokens were all issued before it.
C28_RefreshAcceptedOnce ==
    [][last'.op \in {"refreshToken", "POST /refresh"} /\ last'.status = 200 =>
          /\ ~(/\ last.op \in {"refreshToken", "POST /refresh"}
               /\ last.status = 200
               /\ last.data.presented = last'.data.presented)
          /\ ~(/\ last.op \in {"logout", "changePassword"}
               /\ last.status = 200
               /\ last.user = last'.user)]_vars

\* C29: authMiddleware runs the protected handler only when the request
\* carries a token that verifies and names an existing user with
\* isActive = true; in every other case it answers 401, or 500 on a store
\* error, and nothing is written; and no operation sets isActive back to
\* true, so that a deactivated user's later requests are all rejected.
C29_OnlyActiveUsersReachHandlers ==
    [][/\ last'.op \in ProtectedOps =>
             LET token == last'.data.token
             IN IF last'.data.handler
                THEN /\ token # NoToken
                     /\ verifyToken(token)
                     /\ token.userId \in UserIds
                     /\ users[token.userId].isActive
                ELSE /\ last'.status \in {401, 500}
                     /\ users' = users
       /\ \A u \in UserIds : ~users[u].isActive => ~users'[u].isActive]_vars

\* A request of a deactivated user with a token that verifies was answered
\* 401 without running the handler.
C29_Witness ==
    /\ last.op \in ProtectedOps
    /\ last.status = 401
    /\ last.code = "AUTH_UNAUTHORIZED"
    /\ ~last.data.handler
    /\ verifyToken(last.data.token)
    /\ ~users[last.data.token.userId].isActive

----------------------------------------------------------------------------
(* Validity of favorited ids (Spec) *)

\* C25: an id is added to a user's favorites only when it refers to an
\* existing validated listing at that moment; a request for an id with no
\* listing or with an unvalidated listing leaves the favorites unchanged.
C25_OnlyValidatedListingsFavorited ==
    [][\A u \in UserIds, p \in PropIds :
          /\ p \in Range(users'[u].favorites)
          /\ p \notin Range(users[u].favorites)
          => properties[p].exists /\ properties[p].validated]_vars

----------------------------------------------------------------------------
(* Promoter.updateStatistics (SpecPromoter) *)

MaxCount == 2

PromoterIds == {"P1", "P2"}

\* A listing document with its promoter_id.
OwnedListing(promoter_id, validated) ==
    [exists |-> TRUE, validated |-> validated, promoter_id |-> promoter_id]

\* A promoter document: the statistics subdocument.
PromoterDoc(totalProperties, activeProperties) ==
    [exists |-> TRUE,
     statistics |-> [totalProperties |-> totalProperties, soldProperties |-> 0,
                     activeProperties |-> activeProperties]]

\* { $match: { promoter_id: this._id } }
OwnedBy(P) ==
    {p \in PropIds : properties[p].exists /\ properties[p].promoter_id = P}

\* Property.aggregate([{ $match }, { $group: { _id: null, total, active } }]):
\* one result for the matched documents, none when nothing matched.
AggregateOwned(P) ==
    IF OwnedBy(P) = {} THEN <<>>
    ELSE <<[total |-> Cardinality(OwnedBy(P)),
            active |-> Cardinality({p \in OwnedBy(P) : properties[p].validated})]>>

\* promoterSchema.methods.updateStatistics
updateStatistics(P) ==
    LET stats == AggregateOwned(P)
    IN /\ properties' =
             IF Len(stats) > 0
             THEN [properties EXCEPT
                      ![P].statistics.totalProperties = stats[1].total,
                      ![P].statistics.activeProperties = stats[1].active]
             ELSE properties
       /\ last' = Ok("updateStatistics", "none", P, [none |-> TRUE])
       /\ UNCHANGED <<users, requests>>

\* The document store: each listing absent or owned by a promoter, each
\* promoter with the statistics an earlier run left.
InitPromoter ==
    /\ users = [u \in UserIds |-> NewUser]
    /\ properties \in
          [PropIds \cup PromoterIds ->
              {NoDoc} \cup {OwnedListing(P, v) : P \in PromoterIds, v \in BOOLEAN}
                      \cup {PromoterDoc(t, a) : t, a \in 0..MaxCount}]
    /\ \A p \in PropIds : "statistics" \notin DOMAIN properties[p]
    /\ \A P \in PromoterIds : "statistics" \in DOMAIN properties[P]
    /\ requests = {}
    /\ last = NoResponse

NextPromoter == \E P \in PromoterIds : updateStatistics(P)

SpecPromoter == InitPromoter /\ [][NextPromoter]_vars

----------------------------------------------------------------------------
(* Properties of the promoter statistics (SpecPromoter) *)

\* C27: after updateStatistics completes for a promoter P,
\* statistics.totalProperties is the number of listings whose promoter_id is
\* P and statistics.activeProperties the number of those that are validated,
\* for every number of owned listings, zero included.
C27_StatisticsCurrent ==
    last.op = "updateStatistics" =>
        LET P == last.id
        IN /\ properties[P].statistics.totalProperties = Cardinality(OwnedBy(P))
           /\ properties[P].statistics.activeProperties =
                 Cardinality({p \in OwnedBy(P) : properties[p].validated})

----------------------------------------------------------------------------
(* helpers.retryWithBackoff (SpecRetry) *)

MaxRetries == 3

MaxDelay == 4

MaxInvocations == 6

\* One call of retryWithBackoff(fn, retries, delay) with the recursive call
\* it is in: the arguments of the outer call, the arguments of the current
\* call, the invocations of fn so far and the delays slept so far.
RetryFrame(retries, delay) ==
    [op |-> "retryWithBackoff", retries0 |-> retries, delay0 |-> delay,
     retries |-> retries, delay |-> delay, invocations |-> 0, slept |-> <<>>]

\* return await fn(): this invocation of fn resolves; its value is returned
\* through every enclosing call.
FnResolves(f) ==
    /\ f \in requests
    /\ f.invocations < MaxInvocations
    /\ requests' = {}
    /\ last' = Ok("retryWithBackoff", "none", "none",
                  [call |-> f, invocations |-> f.invocations + 1,
                   slept |-> f.slept, value |-> f.invocations + 1])
    /\ UNCHANGED <<users, properties>>

\* fn rejects and retries === 0: throw error.
FnRejectsLast(f) ==
    /\ f \in requests
    /\ f.invocations < MaxInvocations
    /\ f.retries = 0
    /\ requests' = {}
    /\ last' = [Err("retryWithBackoff", "none", "none", 500, "thrown")
                EXCEPT !.data = [call |-> f, invocations |-> f.invocations + 1,
                                 slept |-> f.slept, error |-> f.invocations + 1]]
    /\ UNCHANGED <<users, properties>>

\* fn rejects and retries is not 0: await sleep(delay), then
\* retryWithBackoff(fn, retries - 1, delay * 2).
FnRejectsRetry(f) ==
    /\ f \in requests
    /\ f.invocations < MaxInvocations
    /\ f.retries # 0
    /\ requests' = {[f EXCEPT !.retries = @ - 1, !.delay = @ * 2,
                              !.invocations = @ + 1,
                              !.slept = Append(@, f.delay)]}
    /\ UNCHANGED <<users, properties, last>>

\* Any call with retries from -1 up and a positive delay.
InitRetry ==
    /\ users = [u \in UserIds |-> NewUser]
    /\ properties = SeedCatalogue
    /\ \E retries \in -1..MaxRetries, delay \in 1..MaxDelay :
          requests = {RetryFrame(retries, delay)}
    /\ last = NoResponse

NextRetry ==
    \/ \E f \in requests : FnResolves(f)
    \/ \E f \in requests : FnRejectsLast(f)
    \/ \E f \in requests : FnRejectsRetry(f)

SpecRetry == InitRetry /\ [][NextRetry]_vars

----------------------------------------------------------------------------
(* Properties of retryWithBackoff (SpecRetry) *)

RECURSIVE Pow2(_)
Pow2(k) == IF k = 0 THEN 1 ELSE 2 * Pow2(k - 1)

\* The invocations a call may make: retries + 1, and one for a retries
\* value below 0.
Budget(retries) == (IF retries < 0 THEN 0 ELSE retries) + 1

\* C30: retryWithBackoff(fn, retries, delay) invokes fn at most retries + 1
\* times for every retries value, so that it terminates; it returns the
\* result of the first invocation that succeeds, rethrows the error of the
\* last invocation when all retries + 1 invocations fail, and waits
\* delay * 2^k before the (k+1)-th retry.
C30_RetryTerminates ==
    /\ \A f \in requests :
          /\ f.invocations <= Budget(f.retries0)
          /\ \A k \in DOMAIN f.slept : f.slept[k] = f.delay0 * Pow2(k - 1)
    /\ last.op = "retryWithBackoff" =>
          /\ last.data.invocations <= Budget(last.data.call.retries0)
          /\ \A k \in DOMAIN last.data.slept :
                last.data.slept[k] = last.data.call.delay0 * Pow2(k - 1)
          /\ last.status = 200 => last.data.value = last.data.invocations
          /\ last.status # 200 =>
                /\ last.data.invocations = Budget(last.data.call.retries0)
                /\ last.data.error = last.data.invocations

====
